---- MODULE Spec2Model ----
(***************************************************************************)
(* Memory-based collaborative filtering on Last.fm play counts             *)
(* (src/last-fm-cf.ipynb).                                                 *)
(*                                                                         *)
(* The notebook is a forward pipeline of cells:                            *)
(*   merge / groupby-sum  ->  top-artist filter  ->  pivot + fillna + csr  *)
(*   ->  pairwise cosine distances (items, users)  ->  predict (item/user) *)
(*                                                                         *)
(* Numbers.  Play counts are integers.  Every float of the program is a    *)
(* rational [n, d] with d > 0 in lowest terms; the IEEE results of a       *)
(* division by zero are NaN = [n |-> 0, d |-> 0] and +-Inf =               *)
(* [n |-> +-1, d |-> 0].  The one irrational operation, the square root    *)
(* inside the cosine, is truncated to 1/Scale; it is exact whenever the    *)
(* cosine is rational (in particular when it is 0 or 1).  Rounding of the  *)
(* 64-bit floats themselves is not modelled.                               *)
(*                                                                         *)
(* Identifiers (user hashes, artist names) are the integers 1..N standing  *)
(* for strings in their lexical order.                                     *)
(***************************************************************************)
EXTENDS Integers, Sequences, FiniteSets, TLC

\* ------------------------------------------------------------------ bounds
MaxRecs == 2
NumUsers == 2
NumArtists == 2
MaxPlays == 1
MaxWeight == 1
PlayThreshold == 0
Scale == 1000

Users == 1..NumUsers
Artists == 1..NumArtists
Plays == 0..MaxPlays
Records == [user : Users, artist : Artists, plays : Plays]

VARIABLES df_data, df_user_UK_female, df, matrix, matrix_sparse,
          item_similarity, user_similarity, item_prediction, user_prediction, pc

vars == <<df_data, df_user_UK_female, df, matrix, matrix_sparse,
          item_similarity, user_similarity, item_prediction, user_prediction, pc>>

\* ------------------------------------------------------- float arithmetic
Abs(x) == IF x < 0 THEN -x ELSE x

RECURSIVE Gcd(_, _)
Gcd(a, b) == IF b = 0 THEN a ELSE Gcd(b, a % b)

NaN == [n |-> 0, d |-> 0]
Inf(s) == [n |-> s, d |-> 0]
Sign(x) == IF x < 0 THEN -1 ELSE IF x > 0 THEN 1 ELSE 0

\* the float n/d, d # 0, in lowest terms with a positive denominator
Rat(n, d) ==
    LET g == Gcd(Abs(n), Abs(d))
        s == IF d < 0 THEN -1 ELSE 1
    IN  [n |-> s * (n \div g), d |-> s * (d \div g)]

Num(k) == [n |-> k, d |-> 1]
Zero == Num(0)
One == Num(1)
IsNaN(x) == x.d = 0 /\ x.n = 0
IsInf(x) == x.d = 0 /\ x.n # 0
IsFinite(x) == x.d > 0

FAdd(x, y) ==
    IF IsNaN(x) \/ IsNaN(y) THEN NaN
    ELSE IF IsInf(x) /\ IsInf(y) THEN (IF x.n = y.n THEN x ELSE NaN)
    ELSE IF IsInf(x) THEN x
    ELSE IF IsInf(y) THEN y
    ELSE Rat(x.n * y.d + y.n * x.d, x.d * y.d)

FNeg(x) == [n |-> -x.n, d |-> x.d]
FSub(x, y) == FAdd(x, FNeg(y))

FMul(x, y) ==
    IF IsNaN(x) \/ IsNaN(y) THEN NaN
    ELSE IF IsInf(x) \/ IsInf(y)
         THEN (IF x.n = 0 \/ y.n = 0 THEN NaN ELSE Inf(Sign(x.n) * Sign(y.n)))
    ELSE Rat(x.n * y.n, x.d * y.d)

\* numpy true division: x/0 is +-inf, 0/0 is nan (a RuntimeWarning, no error)
FDiv(x, y) ==
    IF IsNaN(x) \/ IsNaN(y) THEN NaN
    ELSE IF IsInf(y) THEN (IF IsInf(x) THEN NaN ELSE Zero)
    ELSE IF IsInf(x) THEN (IF y.n < 0 THEN FNeg(x) ELSE x)
    ELSE IF y.n = 0 THEN (IF x.n = 0 THEN NaN ELSE Inf(Sign(x.n)))
    ELSE Rat(x.n * y.d, x.d * y.n)

FAbs(x) == [n |-> Abs(x.n), d |-> x.d]

\* x < y on finite floats
FLess(x, y) == x.n * y.d < y.n * x.d
FLeq(x, y) == x.n * y.d <= y.n * x.d

\* the array f[1], ..., f[n] with every element computed once
Arr(f, n) == SubSeq(f, 1, n)

\* sum of f[k] over k in 1..n, left to right
RECURSIVE FSum(_, _)
FSum(f, n) == IF n = 0 THEN Zero ELSE FAdd(FSum(f, n - 1), f[n])

RECURSIVE ISum(_, _)
ISum(f, n) == IF n = 0 THEN 0 ELSE ISum(f, n - 1) + f[n]

\* floor of the square root, by bisection: lo*lo <= n < (hi+1)*(hi+1)
RECURSIVE SqrtBetween(_, _, _)
SqrtBetween(n, lo, hi) ==
    IF lo = hi THEN lo
    ELSE LET mid == (lo + hi + 1) \div 2
         IN  IF mid * mid <= n THEN SqrtBetween(n, mid, hi)
             ELSE SqrtBetween(n, lo, mid - 1)

\* ------------------------------------------------------------ data frames
Min(S) == CHOOSE m \in S : \A x \in S : m <= x

RECURSIVE SortedSeq(_)
SortedSeq(S) == IF S = {} THEN <<>> ELSE <<Min(S)>> \o SortedSeq(S \ {Min(S)})

KeyLess(k1, k2) == k1[1] < k2[1] \/ (k1[1] = k2[1] /\ k1[2] < k2[2])
MinKey(S) == CHOOSE m \in S : \A x \in S : x = m \/ KeyLess(m, x)

RECURSIVE SortedKeys(_)
SortedKeys(S) ==
    IF S = {} THEN <<>> ELSE <<MinKey(S)>> \o SortedKeys(S \ {MinKey(S)})

KeyOf(r) == <<r.user, r.artist>>
Range(s) == {s[k] : k \in DOMAIN s}

\* sum of the plays of the rows of frame with the given (user, artist) key
RECURSIVE SumPlays(_, _)
SumPlays(frame, key) ==
    IF frame = <<>> THEN 0
    ELSE (IF KeyOf(Head(frame)) = key THEN Head(frame).plays ELSE 0)
         + SumPlays(Tail(frame), key)

\* the plays of the last row of frame with the given key
LastPlays(frame, key) ==
    LET K == {k \in DOMAIN frame : KeyOf(frame[k]) = key}
    IN  frame[CHOOSE k \in K : \A j \in K : j <= k].plays

\* variant: a later row of a key replaces the earlier ones
groupby_overwrite(frame) ==
    LET keys == SortedKeys({KeyOf(r) : r \in Range(frame)})
    IN  [k \in 1..Len(keys) |->
            [user |-> keys[k][1], artist |-> keys[k][2],
             plays |-> LastPlays(frame, keys[k])]]

\* df.groupby(['user','artist'], as_index=False).sum(): one row per key, the
\* keys in sorted order (sort=True), the plays of each group summed
groupby_sum(frame) ==
    LET keys == SortedKeys({KeyOf(r) : r \in Range(frame)})
    IN  [k \in 1..Len(keys) |->
            [user |-> keys[k][1], artist |-> keys[k][2],
             plays |-> SumPlays(frame, keys[k])]]

\* df[df['artist'].isin(top_artist)]
isin_filter(frame, top_artist) ==
    SelectSeq(frame, LAMBDA r : r.artist \in top_artist)

\* a missing cell of a pivot table (plays themselves are never negative)
Missing == -1

HasDuplicateKeys(frame) ==
    \E k1, k2 \in DOMAIN frame : k1 # k2 /\ KeyOf(frame[k1]) = KeyOf(frame[k2])

\* the order in which the elements of s first appear
RECURSIVE FirstSeen(_)
FirstSeen(s) ==
    IF s = <<>> THEN <<>>
    ELSE LET init == FirstSeen(SubSeq(s, 1, Len(s) - 1))
             x == s[Len(s)]
         IN  IF x \in Range(init) THEN init ELSE Append(init, x)

CellOf(frame, a, u) ==
    IF \E r \in Range(frame) : r.artist = a /\ r.user = u
    THEN (CHOOSE r \in Range(frame) : r.artist = a /\ r.user = u).plays
    ELSE Missing

\* variant: index and columns in the order of the rows of the frame
pivot_unsorted(frame) ==
    LET index == FirstSeen([k \in DOMAIN frame |-> frame[k].artist])
        columns == FirstSeen([k \in DOMAIN frame |-> frame[k].user])
    IN  [index |-> index, columns |-> columns,
         values |-> [i \in 1..Len(index) |-> [j \in 1..Len(columns) |->
                        CellOf(frame, index[i], columns[j])]]]

\* df.pivot(index='artist', columns='user', values='plays'): rows are the
\* artists and columns the users, both in sorted order; a pair with no row is
\* missing.  (Called only on a frame without duplicate keys; see Pivot.)
pivot(frame) ==
    LET index == SortedSeq({r.artist : r \in Range(frame)})
        columns == SortedSeq({r.user : r \in Range(frame)})
    IN  [index |-> index, columns |-> columns,
         values |-> [i \in 1..Len(index) |-> [j \in 1..Len(columns) |->
                        CellOf(frame, index[i], columns[j])]]]

\* .fillna(0)
fillna(m, v) ==
    [m EXCEPT !.values = [i \in DOMAIN m.values |-> [j \in DOMAIN m.values[i] |->
        IF m.values[i][j] = Missing THEN v ELSE m.values[i][j]]]]

\* csr_matrix(matrix): the shape and the non-zero cells
csr_matrix(m) ==
    [shape |-> <<Len(m.index), Len(m.columns)>>,
     data |-> {<<i, j, m.values[i][j]>> : i \in 1..Len(m.index), j \in 1..Len(m.columns)}
              \ {<<i, j, 0>> : i \in 1..Len(m.index), j \in 1..Len(m.columns)}]

\* matrix_sparse.T
Transpose(sp) ==
    [shape |-> <<sp.shape[2], sp.shape[1]>>,
     data |-> {<<t[2], t[1], t[3]>> : t \in sp.data}]

\* the cell (i, j) of a sparse matrix: a cell that is not stored is 0
At(sp, i, j) ==
    IF \E t \in sp.data : t[1] = i /\ t[2] = j
    THEN (CHOOSE t \in sp.data : t[1] = i /\ t[2] = j)[3]
    ELSE 0

NRows(sp) == sp.shape[1]
NCols(sp) == sp.shape[2]

NotComputed == <<>>

\* df_data.merge(df_user_UK_female, on='user', how='inner'): the rows of the
\* selected users (the profile table has one row per user)
merge(frame, selected) == SelectSeq(frame, LAMBDA r : r.user \in selected)

\* the artists whose plays over the whole of df_data exceed the threshold
top_artists(frame) ==
    {a \in {r.artist : r \in Range(frame)} :
        ISum([k \in DOMAIN frame |-> IF frame[k].artist = a THEN frame[k].plays ELSE 0],
             Len(frame)) > PlayThreshold}

\* ------------------------------------------------------ cosine distances
\* X is a sparse matrix whose rows are the vectors
Rows(X) ==
    Arr([i \in 1..NRows(X) |-> Arr([k \in 1..NCols(X) |-> At(X, i, k)], NCols(X))],
        NRows(X))
Dot(a, b) == ISum([k \in DOMAIN a |-> a[k] * b[k]], Len(a))

\* the cosine (a.b)/(|a||b|) of two non-zero vectors from a.b, a.a and b.b;
\* the root is truncated to 1/Scale (it is at most 1: (a.b)^2 <= (a.a)(b.b))
Cosine(ab, aa, bb) ==
    Rat(SqrtBetween((Scale * Scale * ab * ab) \div (aa * bb), 0, Scale), Scale)

\* variant: no replacement of a zero norm (0/0 for a zero row)
cosine_similarity_unguarded(X) ==
    LET R == Rows(X)
        sq == Arr([i \in 1..NRows(X) |-> Dot(R[i], R[i])], NRows(X))
    IN  [i \in 1..NRows(X) |-> [j \in 1..NRows(X) |->
            IF sq[i] = 0 \/ sq[j] = 0
            THEN FDiv(Num(Dot(R[i], R[j])), Num(sq[i] * sq[j]))
            ELSE Cosine(Dot(R[i], R[j]), sq[i], sq[j])]]

\* sklearn cosine_similarity: rows are normalised (a zero row stays zero: its
\* norm is replaced by 1) and multiplied
cosine_similarity(X) ==
    LET R == Rows(X)
        sq == Arr([i \in 1..NRows(X) |-> Dot(R[i], R[i])], NRows(X))
    IN  [i \in 1..NRows(X) |-> [j \in 1..NRows(X) |->
            IF sq[i] = 0 \/ sq[j] = 0 THEN Zero
            ELSE Cosine(Dot(R[i], R[j]), sq[i], sq[j])]]

\* np.clip(S, 0, 2)
Clip02(x) == IF FLess(x, Zero) THEN Zero ELSE IF FLess(Num(2), x) THEN Num(2) ELSE x

\* variant: the similarity itself, not 1 minus it
cosine_distances_nosub(X, zero_diag) == cosine_similarity(X)

\* sklearn cosine_distances: S = 1 - cosine_similarity(X).  From scikit-learn
\* 0.19 on the result is also clipped to [0, 2] and its diagonal set to 0;
\* the notebook pins no version, so zero_diag says which build is installed.
cosine_distances(X, zero_diag) ==
    LET S == Arr(cosine_similarity(X), NRows(X))
    IN  [i \in 1..NRows(X) |-> [j \in 1..NRows(X) |->
            IF zero_diag
            THEN (IF i = j THEN Zero ELSE Clip02(FSub(One, S[i][j])))
            ELSE FSub(One, S[i][j])]]

\* pairwise_distances(X, metric='cosine')
pairwise_distances(X, zero_diag) == cosine_distances(X, zero_diag)

\* ---------------------------------------------------------------- predict
\* np.abs(similarity).sum(axis=1)
AbsRowSum(similarity, i) ==
    FSum([j \in 1..Len(similarity) |-> FAbs(similarity[i][j])], Len(similarity))

\* variant: the row mean taken over the stored (non-zero) cells only
mean_nonzero(m) ==
    [u \in 1..NRows(m) |->
        LET nz == Cardinality({t \in m.data : t[1] = u})
        IN  IF nz = 0 THEN Zero
            ELSE Rat(ISum([i \in 1..NCols(m) |-> At(m, u, i)], NCols(m)), nz)]

\* matrix.mean(axis=1) of a sparse matrix: over the whole row, zeros included
mean_axis1(m) ==
    Arr([u \in 1..NRows(m) |->
            Rat(ISum([i \in 1..NCols(m) |-> At(m, u, i)], NCols(m)), NCols(m))],
        NRows(m))

\* matrix.dot(similarity)
MatDotSim(m, similarity) ==
    LET R == Rows(m)
    IN  Arr([u \in 1..NRows(m) |-> Arr([i \in 1..NCols(m) |->
            FSum([j \in 1..NCols(m) |-> FMul(Num(R[u][j]), similarity[j][i])],
                 NCols(m))], NCols(m))], NRows(m))

\* the integer cells of a (users x items) float matrix, as a sparse matrix
AsSparse(dense, nr, nc) ==
    [shape |-> <<nr, nc>>,
     data |-> {t \in {<<u, i, dense[u][i].n \div dense[u][i].d>> :
                        u \in 1..nr, i \in 1..nc} : t[3] # 0}]

predict_user(m, similarity) ==
    LET mean_user_rating == mean_axis1(m)
        R == Rows(m)
        ratings_diff == Arr([v \in 1..NRows(m) |-> Arr([i \in 1..NCols(m) |->
                            FSub(Num(R[v][i]), mean_user_rating[v])], NCols(m))],
                            NRows(m))
        abs_sum == Arr([u \in 1..NRows(m) |-> AbsRowSum(similarity, u)], NRows(m))
    IN  [u \in 1..NRows(m) |-> [i \in 1..NCols(m) |->
            FAdd(mean_user_rating[u],
                 FDiv(FSum([v \in 1..NRows(m) |->
                               FMul(similarity[u][v], ratings_diff[v][i])], NRows(m)),
                      abs_sum[u]))]]

predict_item(m, similarity) ==
    LET dot == MatDotSim(m, similarity)
        abs_sum == Arr([i \in 1..NCols(m) |-> AbsRowSum(similarity, i)], NCols(m))
    IN  [u \in 1..NRows(m) |-> [i \in 1..NCols(m) |->
            FDiv(dot[u][i], abs_sum[i])]]

\* variant: the item-mode quotient taken over the number of items
predict_plain_mean(m, similarity, type) ==
    [pred |-> IF type = "user" THEN predict_user(m, similarity)
              ELSE [u \in 1..NRows(m) |-> [i \in 1..NCols(m) |->
                       FDiv(MatDotSim(m, similarity)[u][i], Num(NCols(m)))]],
     matrix |-> m, similarity |-> similarity]

\* variant: item mode writes the product back into its matrix argument
predict_inplace(m, similarity, type) ==
    [pred |-> IF type = "user" THEN predict_user(m, similarity)
              ELSE predict_item(m, similarity),
     matrix |-> IF type = "user" THEN m
                ELSE AsSparse(MatDotSim(m, similarity), NRows(m), NCols(m)),
     similarity |-> similarity]

\* predict(matrix, similarity, type): the prediction, together with its two
\* arguments as the call leaves them (every operation allocates its result)
predict(m, similarity, type) ==
    [pred |-> IF type = "user" THEN predict_user(m, similarity)
              ELSE predict_item(m, similarity),
     matrix |-> m, similarity |-> similarity]

\* ----------------------------------------------------------------- cells
\* cell 2: the two tables are read
Init ==
    /\ df_data = <<>>
    /\ df_user_UK_female \in SUBSET Users
    /\ df = <<>>
    /\ matrix = NotComputed
    /\ matrix_sparse = NotComputed
    /\ item_similarity = NotComputed
    /\ user_similarity = NotComputed
    /\ item_prediction = NotComputed
    /\ user_prediction = NotComputed
    /\ pc = "load"

\* one more row of the play-count table
ReadRow(r) ==
    /\ pc = "load"
    /\ Len(df_data) < MaxRecs
    /\ df_data' = Append(df_data, r)
    /\ UNCHANGED <<df_user_UK_female, df, matrix, matrix_sparse, item_similarity,
                   user_similarity, item_prediction, user_prediction, pc>>

\* cell 3: merge with the selected users, then group and sum
MergeGroupBy ==
    /\ pc = "load"
    /\ df' = groupby_sum(merge(df_data, df_user_UK_female))
    /\ pc' = "grouped"
    /\ UNCHANGED <<df_data, df_user_UK_female, matrix, matrix_sparse, item_similarity,
                   user_similarity, item_prediction, user_prediction>>

\* cell 4: keep the rows of the top artists
FilterTopArtists ==
    /\ pc = "grouped"
    /\ df' = isin_filter(df, top_artists(df_data))
    /\ pc' = "filtered"
    /\ UNCHANGED <<df_data, df_user_UK_female, matrix, matrix_sparse, item_similarity,
                   user_similarity, item_prediction, user_prediction>>

\* cell 5: the item-user matrix; pivot raises ValueError on a duplicate key
Pivot ==
    /\ pc = "filtered"
    /\ IF HasDuplicateKeys(df)
       THEN /\ pc' = "error"
            /\ UNCHANGED <<matrix, matrix_sparse>>
       ELSE /\ matrix' = fillna(pivot(df), 0)
            /\ matrix_sparse' = csr_matrix(fillna(pivot(df), 0))
            /\ pc' = "pivoted"
    /\ UNCHANGED <<df_data, df_user_UK_female, df, item_similarity, user_similarity,
                   item_prediction, user_prediction>>

Next ==
    \/ \E r \in Records : ReadRow(r)
    \/ MergeGroupBy
    \/ FilterTopArtists
    \/ Pivot

Spec == Init /\ [][Next]_vars

\* ------------------------------------------- similarity and prediction
\* a grouped frame with one row for each cell of an (artists x users) table,
\* sorted by user and then artist
FullFrame(values, nI, nU) ==
    Arr([k \in 1..(nI * nU) |->
            [user |-> ((k - 1) \div nI) + 1, artist |-> ((k - 1) % nI) + 1,
             plays |-> values[((k - 1) % nI) + 1][((k - 1) \div nI) + 1]]],
        nI * nU)

\* rows of a user outside the selection that put every artist above the
\* threshold
OtherPlays(nI, nU) ==
    [a \in 1..nI |-> [user |-> nU + 1, artist |-> a, plays |-> PlayThreshold + 1]]

\* the state after cell 5, for every item-user matrix within the bounds: the
\* play-count table has a row for each cell (a play count may be 0)
InitCF ==
    \E nI \in 1..NumArtists, nU \in 1..NumUsers :
      \E values \in [1..nI -> [1..nU -> 0..MaxWeight]] :
        /\ df_data = FullFrame(values, nI, nU) \o OtherPlays(nI, nU)
        /\ df_user_UK_female = 1..nU
        /\ df = FullFrame(values, nI, nU)
        /\ matrix = fillna(pivot(df), 0)
        /\ matrix_sparse = csr_matrix(matrix)
        /\ item_similarity = NotComputed
        /\ user_similarity = NotComputed
        /\ item_prediction = NotComputed
        /\ user_prediction = NotComputed
        /\ pc = "pivoted"

\* cell 6: both distance matrices, under the installed scikit-learn
ComputeSimilarity ==
    /\ pc = "pivoted"
    /\ \E zero_diag \in BOOLEAN :
         /\ item_similarity' = pairwise_distances(matrix_sparse, zero_diag)
         /\ user_similarity' = pairwise_distances(Transpose(matrix_sparse), zero_diag)
    /\ pc' = "similarity"
    /\ UNCHANGED <<df_data, df_user_UK_female, df, matrix, matrix_sparse,
                   item_prediction, user_prediction>>

\* cell 8, line 310.  The two calls of the cell share no result, so the model
\* takes them in either order.
PredictItem ==
    /\ pc \in {"similarity", "user_done"}
    /\ LET r == predict(Transpose(matrix_sparse), item_similarity, "item")
       IN  /\ item_prediction' = r.pred
           /\ matrix_sparse' = Transpose(r.matrix)
           /\ item_similarity' = r.similarity
    /\ pc' = IF pc = "similarity" THEN "item_done" ELSE "done"
    /\ UNCHANGED <<df_data, df_user_UK_female, df, matrix, user_similarity,
                   user_prediction>>

\* cell 8, line 311
PredictUser ==
    /\ pc \in {"similarity", "item_done"}
    /\ LET r == predict(Transpose(matrix_sparse), user_similarity, "user")
       IN  /\ user_prediction' = r.pred
           /\ matrix_sparse' = Transpose(r.matrix)
           /\ user_similarity' = r.similarity
    /\ pc' = IF pc = "similarity" THEN "user_done" ELSE "done"
    /\ UNCHANGED <<df_data, df_user_UK_female, df, matrix, item_similarity,
                   item_prediction>>

NextCF ==
    \/ ComputeSimilarity
    \/ PredictItem
    \/ PredictUser

SpecCF == InitCF /\ [][NextCF]_vars

\* ======================================================== the claims
\* cells 3 to 5 on a whole table: the item-user matrix built from frame
Build(frame, selected) ==
    fillna(pivot(isin_filter(groupby_sum(merge(frame, selected)), top_artists(frame))), 0)

Permuted(frame, p) == [k \in 1..Len(frame) |-> frame[p[k]]]

Built == pc = "pivoted"
SimDone == pc \in {"similarity", "item_done", "user_done", "done"}
ItemDone == pc \in {"item_done", "done"}
UserDone == pc \in {"user_done", "done"}

\* the users x items weight matrix handed to predict, and its dimensions
W == Transpose(matrix_sparse)
nUsers == NRows(W)
nItems == NCols(W)

\* the average of a user's weights over all items
meanU(u) == Rat(ISum([i \in 1..nItems |-> At(W, u, i)], nItems), nItems)

\* the coefficient of weight[u,j] in the item-mode pred[u,i], and of
\* diff[v,i] in the user-mode pred[u,i]
ItemAggWeight(similarity, i, j) == similarity[j][i]
UserAggWeight(similarity, u, v) == similarity[u][v]

\* the cosine distance 1 - (a.b)/(|a||b|) of rows i and j of X
Distance(X, i, j) == FSub(One, cosine_similarity(X)[i][j])

SameItemVector(i, j) == \A u \in 1..nUsers : At(W, u, i) = At(W, u, j)
ZeroItem(i) == \A u \in 1..nUsers : At(W, u, i) = 0
ZeroUser(u) == \A i \in 1..nItems : At(W, u, i) = 0

\* the matrices are the ones cells 3 to 5 build from the tables
MatrixIsBuilt ==
    pc \notin {"load", "grouped", "filtered", "error"} =>
      /\ df = isin_filter(groupby_sum(merge(df_data, df_user_UK_female)),
                          top_artists(df_data))
      /\ matrix = Build(df_data, df_user_UK_female)
      /\ Len(matrix.index) >= 1 => matrix_sparse = csr_matrix(matrix)

\* ---- C1
\* C1 (as claimed): every cell of both predictions is a defined number, and
\* where the absolute row sum of the similarity argument is zero the cell is
\* 0 (item mode) or meanU[u] (user mode).
C1_NoUndefinedCell ==
    /\ ItemDone =>
         \A u \in 1..nUsers, i \in 1..nItems :
            /\ IsFinite(item_prediction[u][i])
            /\ AbsRowSum(item_similarity, i) = Zero => item_prediction[u][i] = Zero
    /\ UserDone =>
         \A u \in 1..nUsers, i \in 1..nItems :
            /\ IsFinite(user_prediction[u][i])
            /\ AbsRowSum(user_similarity, u) = Zero => user_prediction[u][i] = meanU(u)

\* ---- C2
\* C2 (as claimed): predict weights by similarity: a strictly nearer entity
\* never gets a smaller aggregation weight, in both modes.
C2_WeightIsSimilarity ==
    SimDone =>
      /\ \A i, j, k \in 1..nItems :
            FLess(Distance(matrix_sparse, i, j), Distance(matrix_sparse, i, k))
            => FLeq(ItemAggWeight(item_similarity, i, k),
                    ItemAggWeight(item_similarity, i, j))
      /\ \A u, v, w \in 1..nUsers :
            FLess(Distance(W, u, v), Distance(W, u, w))
            => FLeq(UserAggWeight(user_similarity, u, w),
                    UserAggWeight(user_similarity, u, v))

\* ---- C3
\* C3: item mode.  The prediction has one row per user and one column per
\* item, and wherever the absolute sum of row i of the item distance matrix S
\* is non-zero, pred[u,i] = SUM_j S[i,j]*W[u,j] / SUM_j |S[i,j]|, j over all
\* items.
C3_ItemMode ==
    ItemDone =>
      LET Wd == Rows(W)
      IN  /\ DOMAIN item_prediction = 1..nUsers
          /\ \A u \in 1..nUsers :
                /\ DOMAIN item_prediction[u] = 1..nItems
                /\ \A i \in 1..nItems :
                     AbsRowSum(item_similarity, i) # Zero =>
                       item_prediction[u][i] =
                         FDiv(FSum([j \in 1..nItems |->
                                      FMul(item_similarity[i][j], Num(Wd[u][j]))], nItems),
                              FSum([j \in 1..nItems |-> FAbs(item_similarity[i][j])],
                                   nItems))

C3_Witness ==
    /\ ItemDone
    /\ \E u \in 1..nUsers, i \in 1..nItems :
          /\ AbsRowSum(item_similarity, i) # Zero
          /\ At(W, u, i) = 0
          /\ IsFinite(item_prediction[u][i])
          /\ item_prediction[u][i] # Zero

\* ---- C4
\* C4: user mode.  With meanU[u] the average of W[u,*] over all items and
\* diff[v,i] = W[v,i] - meanU[v], wherever the absolute sum of row u of the
\* user distance matrix S is non-zero,
\* pred[u,i] = meanU[u] + SUM_v S[u,v]*diff[v,i] / SUM_v |S[u,v]|.
C4_UserMode ==
    UserDone =>
      LET Wd == Rows(W)
          mean == Arr([u \in 1..nUsers |-> meanU(u)], nUsers)
          diff == Arr([v \in 1..nUsers |-> Arr([i \in 1..nItems |->
                         FSub(Num(Wd[v][i]), mean[v])], nItems)], nUsers)
      IN  \A u \in 1..nUsers, i \in 1..nItems :
            AbsRowSum(user_similarity, u) # Zero =>
              user_prediction[u][i] =
                FAdd(mean[u],
                     FDiv(FSum([v \in 1..nUsers |->
                                  FMul(user_similarity[u][v], diff[v][i])], nUsers),
                          FSum([v \in 1..nUsers |-> FAbs(user_similarity[u][v])],
                               nUsers)))

C4_Witness ==
    /\ UserDone
    /\ \E u, v \in 1..nUsers, i, j \in 1..nItems :
          /\ u # v
          /\ AbsRowSum(user_similarity, u) # Zero
          /\ At(W, v, i) = 0
          /\ At(W, v, j) # 0
          /\ user_similarity[u][v] # Zero
          /\ IsFinite(user_prediction[u][i])

\* ---- C5
\* C5: in the built matrix the cell of (item, user) is the sum of the plays
\* of all rows of the table with that user and item (0 when there is none);
\* the grouped frame holds one row per (user, item), so pivot never meets a
\* duplicate, and every item and every user has one row / column.
C5_CellIsSum ==
    /\ pc # "error"
    /\ pc \in {"grouped", "filtered", "pivoted"} => ~HasDuplicateKeys(df)
    /\ Built =>
         /\ \A i1, i2 \in DOMAIN matrix.index :
               matrix.index[i1] = matrix.index[i2] => i1 = i2
         /\ \A j1, j2 \in DOMAIN matrix.columns :
               matrix.columns[j1] = matrix.columns[j2] => j1 = j2
         /\ \A i \in DOMAIN matrix.index, j \in DOMAIN matrix.columns :
               /\ matrix.values[i][j] =
                    SumPlays(df_data, <<matrix.columns[j], matrix.index[i]>>)
               /\ At(matrix_sparse, i, j) = matrix.values[i][j]

C5_Witness ==
    /\ Built
    /\ \E k1, k2 \in DOMAIN df_data :
          /\ k1 # k2
          /\ KeyOf(df_data[k1]) = KeyOf(df_data[k2])
          /\ df_data[k1].plays > 0
          /\ df_data[k2].plays > 0
          /\ \E i \in DOMAIN matrix.index, j \in DOMAIN matrix.columns :
                /\ <<matrix.columns[j], matrix.index[i]>> = KeyOf(df_data[k1])
                /\ matrix.values[i][j] = df_data[k1].plays + df_data[k2].plays

\* ---- C6
\* C6: the built matrix does not depend on the order of the rows of the
\* table: items and users are indexed in sorted order, and every permutation
\* of the rows builds the same index, columns and cells.
C6_OrderIndependent ==
    Built =>
      /\ \A i1, i2 \in DOMAIN matrix.index :
            i1 < i2 => matrix.index[i1] < matrix.index[i2]
      /\ \A j1, j2 \in DOMAIN matrix.columns :
            j1 < j2 => matrix.columns[j1] < matrix.columns[j2]
      /\ \A p \in Permutations(1..Len(df_data)) :
            /\ Build(Permuted(df_data, p), df_user_UK_female) = matrix
            /\ csr_matrix(Build(Permuted(df_data, p), df_user_UK_female)) = matrix_sparse

C6_Witness ==
    /\ Built
    /\ Len(df_data) >= 2
    /\ df_data[1].user > df_data[2].user
    /\ df_data[1].artist > df_data[2].artist
    /\ Len(matrix.index) = 2
    /\ Len(matrix.columns) = 2

\* ---- C7
\* C7 (as claimed): two distinct items with identical weight vectors are at
\* distance 0, all-zero vectors included.
C7_DuplicateIsZero ==
    SimDone =>
      \A i, j \in 1..nItems :
        (i # j /\ SameItemVector(i, j)) => item_similarity[i][j] = Zero

\* C7 (amended): two distinct items with identical weight vectors are at
\* distance 0 when the vector is not all-zero, and at distance 1 when it is.
C7_DuplicateNonZero ==
    SimDone =>
      \A i, j \in 1..nItems :
        (i # j /\ SameItemVector(i, j)) =>
          item_similarity[i][j] = (IF ZeroItem(i) THEN One ELSE Zero)

C7_Witness ==
    /\ SimDone
    /\ \E i, j \in 1..nItems :
          /\ i # j
          /\ SameItemVector(i, j)
          /\ ~ZeroItem(i)
          /\ item_similarity[i][j] = Zero

\* ---- C8
\* C8: a user whose weights are all zero is at distance exactly 1 from every
\* other user (other all-zero users included), and no entry of that user's
\* row or column of the user distance matrix is NaN or infinite.
C8_ZeroUser ==
    SimDone =>
      \A u \in 1..nUsers :
        ZeroUser(u) =>
          \A v \in 1..nUsers :
            /\ IsFinite(user_similarity[u][v])
            /\ IsFinite(user_similarity[v][u])
            /\ v # u => (user_similarity[u][v] = One /\ user_similarity[v][u] = One)

C8_Witness ==
    /\ SimDone
    /\ \E u, v, w \in 1..nUsers :
          /\ u # v
          /\ ZeroUser(u)
          /\ ZeroUser(v) \/ ~ZeroUser(w)
          /\ user_similarity[u][v] = One

\* ---- C9
\* C9 (as claimed): the diagonal of both distance matrices is 0 for every
\* entity, one with a zero-norm vector included.
C9_ZeroDiagonal ==
    SimDone =>
      /\ \A i \in 1..nItems : item_similarity[i][i] = Zero
      /\ \A u \in 1..nUsers : user_similarity[u][u] = Zero

\* ---- C10
\* C10: predict leaves its inputs as they were: no call changes the dense or
\* the sparse matrix or either distance matrix, a prediction once computed is
\* not changed by the other call, and once both calls are made each
\* prediction equals the one computed alone from the matrix as built,
\* whichever call came first.
C10_InputsUnchanged ==
    /\ [][SimDone =>
            /\ UNCHANGED <<matrix, matrix_sparse, item_similarity, user_similarity>>
            /\ ItemDone => UNCHANGED item_prediction
            /\ UserDone => UNCHANGED user_prediction]_vars
    /\ [](pc = "done" =>
            /\ item_prediction =
                 predict(Transpose(csr_matrix(matrix)), item_similarity, "item").pred
            /\ user_prediction =
                 predict(Transpose(csr_matrix(matrix)), user_similarity, "user").pred)

C10_Witness ==
    /\ pc = "done"
    /\ nUsers = 2
    /\ nItems = 2
    /\ \E u \in 1..nUsers, i \in 1..nItems :
          /\ IsFinite(item_prediction[u][i])
          /\ item_prediction[u][i] # Zero
          /\ IsFinite(user_prediction[u][i])

====
